---- MODULE Spec2Model ----
(***************************************************************************)
(* Model of src/propeller_select.py: load_propeller_data (the block        *)
(* splitter), analyze_propellers (unit conversion, reachability filter,    *)
(* interpolation at two thrust setpoints, row assembly, ranking, export)   *)
(* and its inner function safe_interp.                                     *)
(*                                                                         *)
(* Numbers.  A float is a record [k, n, d]: k = "num" is the rational n/d  *)
(* in lowest terms with d > 0, k = "inf" is the infinity of sign n,        *)
(* k = "nan" is NaN and k = "none" is Python's None.  Arithmetic is exact  *)
(* (the rounding error of binary floating point is not modelled); the      *)
(* IEEE rules for infinities, NaN and division by zero are.                *)
(*                                                                         *)
(* Units.  Quantities are held in fixed-point units so that the program's  *)
(* conversion constants are whole numbers:                                 *)
(*   THRUST cell  0.1 lbf        thrust_N   1e-6 N   (LBF_TO_N 4.44822)    *)
(*   POWER cell   1 hp           power_W    0.1 W    (HP_TO_W 745.7)       *)
(*   TORQUE cell  1 in-lbf       torque_Nm  1e-3 N.m (INLBF_TO_NM 0.113)   *)
(*   Cp, Ct, FOM cells 1e-5      eff        1e-5 N/W                       *)
(*   RPM cell     1 rpm          setpoints  1e-6 N                         *)
(***************************************************************************)
EXTENDS Integers, Sequences, FiniteSets, TLC

VARIABLES
    \* analyze_propellers
    prop_data, required_thrust_N, target_thrust_N, pc, idx, rows, df_out, files,
    \* safe_interp called on its own
    ix, ixp, ifp, iorder, ires, ipc,
    \* load_propeller_data
    text, loaded, lpc

vars == <<prop_data, required_thrust_N, target_thrust_N, pc, idx, rows, df_out, files,
          ix, ixp, ifp, iorder, ires, ipc, text, loaded, lpc>>

avars == <<prop_data, required_thrust_N, target_thrust_N, pc, idx, rows, df_out, files>>
ivars == <<ix, ixp, ifp, iorder, ires, ipc>>
lvars == <<text, loaded, lpc>>

(***************************************************************************)
(* Floats                                                                  *)
(***************************************************************************)
Abs(n) == IF n < 0 THEN -n ELSE n

Sgn(n) == IF n < 0 THEN -1 ELSE IF n > 0 THEN 1 ELSE 0

RECURSIVE GCD(_, _)
GCD(a, b) == IF b = 0 THEN a ELSE GCD(b, a % b)

NaN == [k |-> "nan", n |-> 0, d |-> 1]

None == [k |-> "none", n |-> 0, d |-> 1]

Inf(s) == [k |-> "inf", n |-> s, d |-> 1]

\* n/d in lowest terms, d # 0
Num(n, d) ==
    LET g == GCD(Abs(n), Abs(d))
        s == IF d < 0 THEN -1 ELSE 1
    IN [k |-> "num", n |-> s * (n \div g), d |-> s * (d \div g)]

Int2R(n) == [k |-> "num", n |-> n, d |-> 1]

isnan(v) == v.k = "nan"

IsZero(v) == v.k = "num" /\ v.n = 0

RSign(v) == Sgn(v.n)

\* a < b for numbers and infinities; every comparison with NaN is false
RLt(a, b) ==
    IF isnan(a) \/ isnan(b) THEN FALSE
    ELSE IF a.k = "inf" THEN a.n < 0 /\ ~(b.k = "inf" /\ b.n < 0)
    ELSE IF b.k = "inf" THEN b.n > 0
    ELSE LET g == GCD(a.d, b.d) IN a.n * (b.d \div g) < b.n * (a.d \div g)

RLe(a, b) == ~isnan(a) /\ ~isnan(b) /\ ~RLt(b, a)

RNeg(v) == [v EXCEPT !.n = -v.n]

RAdd(a, b) ==
    IF isnan(a) \/ isnan(b) THEN NaN
    ELSE IF a.k = "inf" /\ b.k = "inf" THEN (IF a.n = b.n THEN a ELSE NaN)
    ELSE IF a.k = "inf" THEN a
    ELSE IF b.k = "inf" THEN b
    ELSE LET g == GCD(a.d, b.d)
         IN Num(a.n * (b.d \div g) + b.n * (a.d \div g), (a.d \div g) * b.d)

RSub(a, b) == RAdd(a, RNeg(b))

RMul(a, b) ==
    IF isnan(a) \/ isnan(b) THEN NaN
    ELSE IF a.k = "inf" \/ b.k = "inf"
         THEN (IF IsZero(a) \/ IsZero(b) THEN NaN ELSE Inf(RSign(a) * RSign(b)))
    ELSE LET g1 == GCD(Abs(a.n), b.d)
             g2 == GCD(Abs(b.n), a.d)
         IN Num((a.n \div g1) * (b.n \div g2), (a.d \div g2) * (b.d \div g1))

\* IEEE division: x/0 is an infinity, 0/0 is NaN (zero is taken as +0)
RDiv(a, b) ==
    IF isnan(a) \/ isnan(b) THEN NaN
    ELSE IF a.k = "inf" THEN (IF b.k = "inf" THEN NaN
                              ELSE Inf(a.n * (IF RSign(b) < 0 THEN -1 ELSE 1)))
    ELSE IF b.k = "inf" THEN Int2R(0)
    ELSE IF b.n = 0 THEN (IF a.n = 0 THEN NaN ELSE Inf(RSign(a)))
    ELSE LET g1 == GCD(Abs(a.n), Abs(b.n))
             g2 == GCD(a.d, b.d)
         IN Num((a.n \div g1) * (b.d \div g2), (a.d \div g2) * (b.n \div g1))

\* round(n/d) to an integer, ties to even (d > 0)
RoundHalfEven(n, d) ==
    LET q == n \div d
        r == n % d
    IN IF 2 * r < d THEN q
       ELSE IF 2 * r > d THEN q + 1
       ELSE IF q % 2 = 0 THEN q ELSE q + 1

\* round(v * mul / dv) to an integer, ties to even, for a number v; one of
\* mul, dv is 1.  The whole part of v is scaled apart from its fraction.
RoundScaled(v, mul, dv) ==
    IF dv = 1
    THEN LET q0   == v.n \div v.d
             r0   == v.n % v.d
             fl   == (r0 * mul) \div v.d
             rem  == (r0 * mul) % v.d
             base == q0 * mul + fl
         IN IF 2 * rem < v.d THEN base
            ELSE IF 2 * rem > v.d THEN base + 1
            ELSE IF base % 2 = 0 THEN base ELSE base + 1
    ELSE RoundHalfEven(v.n * mul, v.d * dv)

(***************************************************************************)
(* Sequences                                                               *)
(***************************************************************************)
Range(s) == {s[i] : i \in DOMAIN s}

SeqsUpTo(S, n) == UNION {[1..m -> S] : m \in 0..n}

\* the elements of s at the positions where mask holds, in order
RECURSIVE Compress(_, _)
Compress(s, mask) ==
    IF s = <<>> THEN <<>>
    ELSE LET rest == Compress(Tail(s), Tail(mask))
         IN IF Head(mask) THEN <<Head(s)>> \o rest ELSE rest

Permutations1(n) == {p \in [1..n -> 1..n] : \A i, j \in 1..n : i # j => p[i] # p[j]}

\* np.nanmin / np.nanmax of a non-empty NaN-free array
nanmin(a) == CHOOSE m \in Range(a) : \A v \in Range(a) : RLe(m, v)

nanmax(a) == CHOOSE m \in Range(a) : \A v \in Range(a) : RLe(v, m)

any_isnan(a) == \E i \in DOMAIN a : isnan(a[i])

(***************************************************************************)
(* np.argsort(xp) with the default kind: an index order that sorts xp      *)
(* ascending.  The default sort is not stable, so the order among equal    *)
(* keys is whatever the build's sort produces: every sorting order is a    *)
(* possible outcome.  NaN sorts last.                                      *)
(***************************************************************************)
SortLe(a, b) == isnan(b) \/ RLe(a, b)

ArgsortOrders(xp) ==
    {p \in Permutations1(Len(xp)) :
        \A i \in 1..(Len(xp) - 1) : SortLe(xp[p[i]], xp[p[i + 1]])}

\* a variant that keeps the last entry of each run of equal xp
uniq_mask_keep_last(xp_sorted) ==
    [i \in 1..Len(xp_sorted) |-> i = Len(xp_sorted) \/ xp_sorted[i] # xp_sorted[i + 1]]

\* uniq_mask = [True] ++ (xp_sorted[1:] != xp_sorted[:-1])
uniq_mask(xp_sorted) ==
    [i \in 1..Len(xp_sorted) |-> i = 1 \/ xp_sorted[i] # xp_sorted[i - 1]]

(***************************************************************************)
(* np.interp(x, dx, dy) for strictly increasing dx and dx[1] <= x <=       *)
(* dx[n]: the bracket j with dx[j] <= x < dx[j+1] (j = n at the right      *)
(* end), the exact value at a node, and otherwise the chord through the    *)
(* bracket's ends, tried from the other end when the first gives NaN.      *)
(***************************************************************************)
np_interp(x, dx, dy) ==
    LET n == Len(dx)
        j == CHOOSE jj \in 1..n : RLe(dx[jj], x) /\ (jj = n \/ RLt(x, dx[jj + 1]))
    IN IF j = n THEN dy[j]
       ELSE IF dx[j] = x THEN dy[j]
       ELSE LET slope == RDiv(RSub(dy[j + 1], dy[j]), RSub(dx[j + 1], dx[j]))
                r1 == RAdd(RMul(slope, RSub(x, dx[j])), dy[j])
                r2 == RAdd(RMul(slope, RSub(x, dx[j + 1])), dy[j + 1])
            IN IF ~isnan(r1) THEN r1
               ELSE IF ~isnan(r2) THEN r2
               ELSE IF dy[j] = dy[j + 1] THEN dy[j] ELSE NaN

\* a variant without the range test: np.interp then clamps to the end values
safe_interp_clamped(x, xp, fp, order) ==
    IF Len(xp) = 0 \/ isnan(x) \/ any_isnan(xp) \/ any_isnan(fp) THEN NaN
    ELSE LET xp_sorted == [i \in 1..Len(xp) |-> xp[order[i]]]
             fp_sorted == [i \in 1..Len(fp) |-> fp[order[i]]]
             mask == uniq_mask(xp_sorted)
             dx == Compress(xp_sorted, mask)
             dy == Compress(fp_sorted, mask)
         IN IF RLt(x, dx[1]) THEN dy[1]
            ELSE IF RLt(dx[Len(dx)], x) THEN dy[Len(dy)]
            ELSE np_interp(x, dx, dy)

(***************************************************************************)
(* safe_interp(x, xp, fp); order is the outcome of np.argsort(xp)          *)
(***************************************************************************)
safe_interp(x, xp, fp, order) ==
    IF Len(xp) = 0 \/ isnan(x) \/ any_isnan(xp) \/ any_isnan(fp) THEN NaN
    ELSE LET xmin == nanmin(xp)
             xmax == nanmax(xp)
         IN IF RLt(x, xmin) \/ RLt(xmax, x) THEN NaN
            ELSE LET xp_sorted == [i \in 1..Len(xp) |-> xp[order[i]]]
                     fp_sorted == [i \in 1..Len(fp) |-> fp[order[i]]]
                     mask == uniq_mask(xp_sorted)
                 IN np_interp(x, Compress(xp_sorted, mask), Compress(fp_sorted, mask))

(***************************************************************************)
(* safe_interp on its own: the arguments are drawn from bounded sets and   *)
(* the call returns.                                                       *)
(***************************************************************************)
\* the most entries of xp and fp
MaxLen == 3

InterpXs == {Int2R(0), Int2R(1), Int2R(2)}

InterpFs == {Int2R(0), Int2R(3), Inf(1), NaN}

\* -1/2, 0, 1/2, ..., 5/2 and NaN
InterpQueries == {Num(v, 2) : v \in (-1)..5} \cup {NaN}

IdleAnalysis ==
    /\ prop_data = <<>> /\ required_thrust_N = Int2R(0) /\ target_thrust_N = Int2R(0)
    /\ pc = "idle" /\ idx = 0 /\ rows = <<>> /\ df_out = <<>> /\ files = {}

IdleInterp ==
    /\ ix = NaN /\ ixp = <<>> /\ ifp = <<>> /\ iorder = <<>> /\ ires = NaN /\ ipc = "idle"

IdleLoad ==
    /\ text = <<>> /\ loaded = <<>> /\ lpc = "idle"

InitInterp ==
    /\ IdleAnalysis /\ IdleLoad
    /\ \E m \in 0..MaxLen :
          /\ ixp \in [1..m -> InterpXs \cup {NaN}]
          /\ ifp \in [1..m -> InterpFs]
    /\ ix \in InterpQueries
    /\ iorder = <<>>
    /\ ires = NaN
    /\ ipc = "call"

CallSafeInterp ==
    /\ ipc = "call"
    /\ \E order \in ArgsortOrders(ixp) :
          /\ iorder' = order
          /\ ires' = safe_interp(ix, ixp, ifp, order)
    /\ ipc' = "ret"
    /\ UNCHANGED <<ix, ixp, ifp, avars, lvars>>

NextInterp == CallSafeInterp

SpecInterp == InitInterp /\ [][NextInterp]_vars

(***************************************************************************)
(* Properties of safe_interp                                               *)
(***************************************************************************)
InterpReturned == ipc = "ret" /\ Len(ixp) > 0 /\ ~any_isnan(ixp)

\* the dependent value paired with x in the cleaned table: the first entry, in
\* sorted order, of the run of entries whose xp equals x
CleanedValueAt(x, xp, fp, order) ==
    LET k == CHOOSE kk \in 1..Len(xp) :
                 /\ xp[order[kk]] = x
                 /\ \A m \in 1..(kk - 1) : xp[order[m]] # x
    IN fp[order[k]]

\* C4: for non-empty NaN-free xp and fp of equal length and every index i,
\* safe_interp(xp[i], xp, fp) is the dependent value paired with xp[i] in the
\* cleaned table (sorted by xp, first entry of each run of equal xp kept), and
\* it is fp[i] whenever xp[i] occurs only once in xp.
C4_InterpAtObservedPoint ==
    (InterpReturned /\ ~any_isnan(ifp)) =>
        \A i \in DOMAIN ixp :
            ix = ixp[i] =>
                /\ ires = CleanedValueAt(ix, ixp, ifp, iorder)
                /\ (Cardinality({j \in DOMAIN ixp : ixp[j] = ix}) = 1 => ires = ifp[i])

\* an observed point that occurs twice with different dependent values
C4_Witness ==
    /\ InterpReturned /\ ~any_isnan(ifp)
    /\ \E i, j \in DOMAIN ixp :
          /\ i < j /\ ixp[i] = ix /\ ixp[j] = ix /\ ifp[i] # ifp[j]
          /\ ires = ifp[j]
    /\ \E i \in DOMAIN ixp : RLt(ix, ixp[i])

\* C5 as claimed: for non-empty NaN-free xp, safe_interp returns NaN for every x
\* strictly outside [min(xp), max(xp)], and a defined value for x equal to
\* min(xp) or max(xp).
C5_Original ==
    InterpReturned =>
        /\ (RLt(ix, nanmin(ixp)) \/ RLt(nanmax(ixp), ix)) => isnan(ires)
        /\ (ix = nanmin(ixp) \/ ix = nanmax(ixp)) => ~isnan(ires)

\* C5 amended: for non-empty NaN-free xp, safe_interp returns NaN for every x
\* strictly outside [min(xp), max(xp)]; for x equal to min(xp) or max(xp) it
\* returns a defined value provided fp is NaN-free too.
C5_OutOfRangeIsNaN ==
    InterpReturned =>
        /\ (RLt(ix, nanmin(ixp)) \/ RLt(nanmax(ixp), ix)) => isnan(ires)
        /\ ((ix = nanmin(ixp) \/ ix = nanmax(ixp)) /\ ~any_isnan(ifp)) => ~isnan(ires)

\* x above max(xp) with clean arrays of two distinct points: NaN is returned
C5_Witness ==
    /\ InterpReturned /\ ~any_isnan(ifp)
    /\ RLt(nanmax(ixp), ix) /\ RLt(nanmin(ixp), nanmax(ixp))
    /\ isnan(ires)

(***************************************************************************)
(* analyze_propellers: inputs                                              *)
(*                                                                         *)
(* prop_data is the dict returned by load_propeller_data, as the sequence  *)
(* of its (name, table) items in insertion order.  A table is the sequence *)
(* of its raw rows under the header RPM THRUST POWER TORQUE Cp Ct FOM; a   *)
(* cell is a number or a piece of text that is no number.                  *)
(***************************************************************************)
LBF_TO_N == 444822
HP_TO_W == 7457
INLBF_TO_NM == 113

Text == [k |-> "text", n |-> 0, d |-> 1]

Columns == {"RPM", "THRUST", "POWER", "TORQUE", "Cp", "Ct", "FOM"}

\* a data line of the table with THRUST = t/10 lbf and POWER = p hp
DataRow(t, p) ==
    [RPM |-> Int2R(1000 + 100 * t), THRUST |-> Int2R(t), POWER |-> Int2R(p),
     TORQUE |-> Int2R(2 * p + 1), Cp |-> Int2R(3000 + 100 * p),
     Ct |-> Int2R(9000 + 10 * t), FOM |-> Int2R(50000 + 100 * t - 100 * p)]

\* the units line under the header, "(LBF) (HP) (IN-LBF)": three text cells,
\* the other cells missing
UnitsRow ==
    [RPM |-> Text, THRUST |-> Text, POWER |-> Text,
     TORQUE |-> NaN, Cp |-> NaN, Ct |-> NaN, FOM |-> NaN]

\* a data line whose FOM cell reads "-NaN"
BadFomRow == [DataRow(25, 1) EXCEPT !.FOM = Text]

ThrustCells == {0, 10, 25}

PowerCells == {0, 1, 2}

RawRows == {DataRow(t, p) : t \in ThrustCells, p \in PowerCells} \cup {UnitsRow, BadFomRow}

\* the most table rows a file holds, over all its propellers
MaxRows == 2

\* setpoints in 1e-6 N: 4.44822 N (1 lbf), 10.591 N, 11.12055 N (2.5 lbf);
\* the last two both print as 11 under {:.0f}
Setpoints == {Int2R(4448220), Int2R(10591000), Int2R(11120550)}

Item(name, df) == [name |-> name, df |-> df]

\* prop_data is a dict of at most two propellers with at most budget table
\* rows in all
IsPropData(pd, budget) ==
    \/ pd = <<>>
    \/ \E df1 \in SeqsUpTo(RawRows, budget) : pd = <<Item("80x45", df1)>>
    \/ \E df1 \in SeqsUpTo(RawRows, budget) :
          \E df2 \in SeqsUpTo(RawRows, budget - Len(df1)) :
             pd = <<Item("80x45", df1), Item("60x40", df2)>>

(***************************************************************************)
(* analyze_propellers: the per-propeller computation                       *)
(***************************************************************************)
\* pd.to_numeric(errors="coerce") on a cell
to_numeric(c) == IF c.k = "num" THEN c ELSE NaN

RowHasNaN(r) == \E c \in Columns : isnan(to_numeric(r[c]))

RECURSIVE SelectRows(_)
SelectRows(s) ==
    IF s = <<>> THEN <<>>
    ELSE IF RowHasNaN(Head(s)) THEN SelectRows(Tail(s))
    ELSE <<Head(s)>> \o SelectRows(Tail(s))

\* df.apply(pd.to_numeric, errors="coerce").dropna(how="any")
dropna(df) == SelectRows(df)

Column(df, c) == [i \in 1..Len(df) |-> df[i][c]]

Scale(col, factor) == [i \in 1..Len(col) |-> RMul(col[i], Int2R(factor))]

thrust_N(df) == Scale(Column(df, "THRUST"), LBF_TO_N)

power_W(df) == Scale(Column(df, "POWER"), HP_TO_W)

torque_Nm(df) == Scale(Column(df, "TORQUE"), INLBF_TO_NM)

\* eff = thrust_N / power_W, elementwise
eff(df) == [i \in 1..Len(df) |-> RDiv(thrust_N(df)[i], power_W(df)[i])]

\* a variant that also skips a propeller whose maximum equals the required thrust
CannotReach_NonStrict(th, req, tgt) == RLe(nanmax(th), req) \/ RLt(tgt, nanmin(th))

\* the skip test of the loop
CannotReach(th, req, tgt) == RLt(nanmax(th), req) \/ RLt(tgt, nanmin(th))

\* f"{x:.0f}"
Fmt0(x) == RoundHalfEven(x.n, 1000000 * x.d)

Label(f, x) == [f |-> f, at |-> Fmt0(x)]

\* round(v, ndigits), kept in the unit of v: the multiple of dv/mul units
\* nearest to v
Rounded(v, mul, dv) == Num(RoundScaled(v, mul, dv) * dv, mul)

NoneIfNaN(v, mul, dv) == IF isnan(v) THEN None ELSE
                         IF v.k = "inf" THEN v ELSE Rounded(v, mul, dv)

\* int(round(v)) for the RPM field
IntRound(v) == IF isnan(v) THEN None ELSE Int2R(RoundScaled(v, 1, 1))

\* a dict literal: a later item with an equal key replaces the earlier value
DictOf(items) ==
    [key \in {items[i][1] : i \in DOMAIN items} |->
        LET last == CHOOSE i \in DOMAIN items :
                        /\ items[i][1] = key
                        /\ \A j \in DOMAIN items : items[j][1] = key => j <= i
        IN items[last][2]]

\* the eight fields of one setpoint x; thrust is the value of the Thrust field
PointItems(x, thrust, th, df, order) ==
    << <<Label("RPM", x),    IntRound(safe_interp(x, th, Column(df, "RPM"), order))>>,
       <<Label("Thrust", x), thrust>>,
       <<Label("Power", x),  NoneIfNaN(safe_interp(x, th, power_W(df), order), 100, 1)>>,
       <<Label("Torque", x), NoneIfNaN(safe_interp(x, th, torque_Nm(df), order), 10, 1)>>,
       <<Label("Cp", x),     NoneIfNaN(safe_interp(x, th, Column(df, "Cp"), order), 1, 1)>>,
       <<Label("Ct", x),     NoneIfNaN(safe_interp(x, th, Column(df, "Ct"), order), 1, 1)>>,
       <<Label("FOM", x),    NoneIfNaN(safe_interp(x, th, Column(df, "FOM"), order), 1, 1)>>,
       <<Label("Eff", x),    NoneIfNaN(safe_interp(x, th, eff(df), order), 10, 1)>> >>

thrust_req(req) == Rounded(req, 1, 1000)

thrust_tgt(th, tgt) ==
    IF RLe(nanmin(th), tgt) /\ RLe(tgt, nanmax(th)) THEN Rounded(tgt, 1, 1000) ELSE None

\* the dict appended to rows for one propeller
ResultRow(name, df, req, tgt, order) ==
    LET th == thrust_N(df)
    IN [Propeller |-> name,
        d |-> DictOf(PointItems(req, thrust_req(req), th, df, order)
                     \o PointItems(tgt, thrust_tgt(th, tgt), th, df, order))]

(***************************************************************************)
(* analyze_propellers: the loop over prop_data.items(), then the tail      *)
(***************************************************************************)
InitWith(budget) ==
    /\ IdleInterp /\ IdleLoad
    /\ IsPropData(prop_data, budget)
    /\ required_thrust_N \in Setpoints
    /\ target_thrust_N \in Setpoints
    /\ pc = "loop"
    /\ idx = 1
    /\ rows = <<>>
    /\ df_out = <<>>
    /\ files = {}

InLoop == pc = "loop" /\ idx <= Len(prop_data)

\* np.nanmax of an empty thrust column raises ValueError
RaiseOnEmptyTable ==
    /\ InLoop
    /\ dropna(prop_data[idx].df) = <<>>
    /\ pc' = "raised"
    /\ UNCHANGED <<prop_data, required_thrust_N, target_thrust_N, idx, rows, df_out, files>>

SkipPropeller ==
    /\ InLoop
    /\ LET df == dropna(prop_data[idx].df)
       IN /\ df # <<>>
          /\ CannotReach(thrust_N(df), required_thrust_N, target_thrust_N)
    /\ idx' = idx + 1
    /\ UNCHANGED <<prop_data, required_thrust_N, target_thrust_N, pc, rows, df_out, files>>

AppendRow ==
    /\ InLoop
    /\ LET df == dropna(prop_data[idx].df)
       IN /\ df # <<>>
          /\ ~CannotReach(thrust_N(df), required_thrust_N, target_thrust_N)
          /\ \E order \in ArgsortOrders(thrust_N(df)) :
                rows' = Append(rows, ResultRow(prop_data[idx].name, df,
                                               required_thrust_N, target_thrust_N, order))
    /\ idx' = idx + 1
    /\ UNCHANGED <<prop_data, required_thrust_N, target_thrust_N, pc, df_out, files>>

\* a variant that exports the empty table as well
ReturnEmpty_writing ==
    /\ pc = "loop" /\ idx > Len(prop_data)
    /\ rows = <<>>
    /\ df_out' = <<>>
    /\ files' = {[path |-> ".csv", table |-> <<>>], [path |-> ".dat", table |-> <<>>]}
    /\ pc' = "done"
    /\ UNCHANGED <<prop_data, required_thrust_N, target_thrust_N, idx, rows>>

\* if not rows: return pd.DataFrame()
ReturnEmpty ==
    /\ pc = "loop" /\ idx > Len(prop_data)
    /\ rows = <<>>
    /\ df_out' = <<>>
    /\ pc' = "done"
    /\ UNCHANGED <<prop_data, required_thrust_N, target_thrust_N, idx, rows, files>>

\* the value sort_values reads in a row: the column "Power@{required:.0f}N (W)"
SortKey(row) == row.d[Label("Power", required_thrust_N)]

\* ascending, na_position="last"
SortKeyLe(a, b) == b = None \/ (a # None /\ RLe(a, b))

\* sort_values with the default (unstable) kind, then reset_index
SortedTables(rs) ==
    {[i \in 1..Len(rs) |-> rs[p[i]]] :
        p \in {q \in Permutations1(Len(rs)) :
                  \A i \in 1..(Len(rs) - 1) : SortKeyLe(SortKey(rs[q[i]]), SortKey(rs[q[i + 1]]))}}

\* sort, write <output_name>.csv and <output_name>.dat, return the table
SortAndExport ==
    /\ pc = "loop" /\ idx > Len(prop_data)
    /\ rows # <<>>
    /\ \E t \in SortedTables(rows) :
          /\ df_out' = t
          /\ files' = {[path |-> ".csv", table |-> t], [path |-> ".dat", table |-> t]}
    /\ pc' = "done"
    /\ UNCHANGED <<prop_data, required_thrust_N, target_thrust_N, idx, rows>>

Next ==
    \/ (RaiseOnEmptyTable /\ UNCHANGED <<ivars, lvars>>)
    \/ (SkipPropeller /\ UNCHANGED <<ivars, lvars>>)
    \/ (AppendRow /\ UNCHANGED <<ivars, lvars>>)
    \/ (ReturnEmpty /\ UNCHANGED <<ivars, lvars>>)
    \/ (SortAndExport /\ UNCHANGED <<ivars, lvars>>)

Init == InitWith(MaxRows)

Spec == Init /\ [][Next]_vars

\* the same with one more table row in the file
InitWide == InitWith(MaxRows + 1)

SpecWide == InitWide /\ [][Next]_vars

(***************************************************************************)
(* Properties of analyze_propellers                                        *)
(***************************************************************************)
Returned == pc = "done"

\* the SI thrust column of the rows of propeller i left after dropna
NumericThrust(i) == thrust_N(dropna(prop_data[i].df))

\* max(thrust_N) >= required_thrust_N and min(thrust_N) <= target_thrust_N
Included(i) ==
    /\ \E k \in DOMAIN NumericThrust(i) : RLe(required_thrust_N, NumericThrust(i)[k])
    /\ \E k \in DOMAIN NumericThrust(i) : RLe(NumericThrust(i)[k], target_thrust_N)

RowsOf(table, name) == {r \in DOMAIN table : table[r].Propeller = name}

\* C1: in the returned table a propeller of the mapping has a row if and only if
\* max(thrust_N) >= required_thrust_N and min(thrust_N) <= target_thrust_N over
\* the rows left after dropping non-numeric rows; it then has exactly one row,
\* and a propeller failing either bound has none.
C1_ReachabilityFilter ==
    Returned =>
        \A i \in DOMAIN prop_data :
            Cardinality(RowsOf(df_out, prop_data[i].name)) = (IF Included(i) THEN 1 ELSE 0)

\* two propellers, different setpoints: one is kept, the other filtered out
C1_Witness ==
    /\ Returned /\ Len(prop_data) = 2 /\ Len(df_out) = 1
    /\ required_thrust_N # target_thrust_N
    /\ \E i \in DOMAIN prop_data : Included(i)
    /\ \E i \in DOMAIN prop_data : ~Included(i)

\* the power at the required thrust of a propeller, as the row assembly rounds
\* it, for each order argsort may return
PowerAtRequired(name) ==
    LET i  == CHOOSE k \in DOMAIN prop_data : prop_data[k].name = name
        df == dropna(prop_data[i].df)
    IN {NoneIfNaN(safe_interp(required_thrust_N, thrust_N(df), power_W(df), o), 100, 1) :
           o \in ArgsortOrders(thrust_N(df))}

\* C2 as claimed: in the returned table the power at the required thrust of
\* row i is <= that of row i+1, and rows where it is undefined come after all
\* rows where it is defined.
C2_ResultOrdering ==
    Returned =>
        \A r \in 1..(Len(df_out) - 1) :
            \E a \in PowerAtRequired(df_out[r].Propeller),
               b \in PowerAtRequired(df_out[r + 1].Propeller) : SortKeyLe(a, b)

\* C3 as claimed: in every result row the thrust field of the required point
\* is exactly required_thrust_N, and the thrust field of the target point is
\* target_thrust_N if min(thrust_N) <= target_thrust_N <= max(thrust_N) and
\* undefined otherwise.
C3_ThrustReporting ==
    \A r \in DOMAIN rows :
        LET i  == CHOOSE k \in DOMAIN prop_data : prop_data[k].name = rows[r].Propeller
            th == NumericThrust(i)
        IN /\ rows[r].d[Label("Thrust", required_thrust_N)] = required_thrust_N
           /\ rows[r].d[Label("Thrust", target_thrust_N)] =
                 (IF /\ \E k \in DOMAIN th : RLe(th[k], target_thrust_N)
                     /\ \E k \in DOMAIN th : RLe(target_thrust_N, th[k])
                  THEN target_thrust_N ELSE None)

\* the rows of df with POWER # 0
RECURSIVE PoweredRows(_)
PoweredRows(df) ==
    IF df = <<>> THEN <<>>
    ELSE IF IsZero(Head(df).POWER) THEN PoweredRows(Tail(df))
    ELSE <<Head(df)>> \o PoweredRows(Tail(df))

\* C6 as claimed: when a retained row has POWER = 0, its efficiency entry is
\* left out of the efficiency interpolation, so the efficiency at a required
\* thrust inside the thrust range of the remaining rows is the interpolation
\* over the remaining rows.  (Stated for setpoints whose labels differ.)
C6_ZeroPowerExcluded ==
    \A r \in DOMAIN rows :
        LET i    == CHOOSE k \in DOMAIN prop_data : prop_data[k].name = rows[r].Propeller
            df   == dropna(prop_data[i].df)
            rest == PoweredRows(df)
            th   == thrust_N(rest)
        IN (/\ Fmt0(required_thrust_N) # Fmt0(target_thrust_N)
            /\ \E k \in DOMAIN df : IsZero(df[k].POWER)
            /\ \E k \in DOMAIN th : RLe(th[k], required_thrust_N)
            /\ \E k \in DOMAIN th : RLe(required_thrust_N, th[k]))
           => \E o \in ArgsortOrders(th) :
                 rows[r].d[Label("Eff", required_thrust_N)] =
                     NoneIfNaN(safe_interp(required_thrust_N, th, eff(rest), o), 10, 1)

\* C7 as claimed: analyze_propellers never ends in an error; it returns a table
\* for every mapping load_propeller_data can return.
C7_NoFatalPath == pc # "raised"

NoneIncluded == \A i \in DOMAIN prop_data : ~Included(i)

\* C9: when no propeller passes the reachability filter the returned table is
\* empty and neither <output_name>.csv nor <output_name>.dat is written; files
\* are written only on the path that returns at least one row, and then both.
C9_EmptyResultWritesNothing ==
    /\ (Returned /\ NoneIncluded) => (df_out = <<>> /\ files = {})
    /\ files # {} => /\ Returned /\ Len(df_out) >= 1
                     /\ {f.path : f \in files} = {".csv", ".dat"}
    /\ (Returned /\ Len(df_out) >= 1) => files # {}

\* a mapping of two propellers, neither of which passes the filter
C9_Witness ==
    /\ Returned /\ Len(prop_data) = 2 /\ NoneIncluded
    /\ df_out = <<>> /\ files = {}

\* C10 as claimed: every result row holds 8 required-point fields and 8
\* target-point fields under 16 pairwise distinct labels, also when the two
\* setpoints are equal or print as the same whole number.
C10_RowShape ==
    \A r \in DOMAIN rows : Cardinality(DOMAIN rows[r].d) = 16

(***************************************************************************)
(* load_propeller_data                                                     *)
(*                                                                         *)
(* The file text is the sequence of its lines.  What the code reads of a   *)
(* line is its kind:                                                       *)
(*   name     its content, leading whitespace stripped, starts with a      *)
(*            match of \d{1,3}x[0-9A-Za-z\-\(\)]+\.dat; nm is the name     *)
(*   mention  it holds such a match, but not at its start; nm is the name  *)
(*   rpm      its stripped content starts with "RPM"                       *)
(*   data     any other line that is not blank                             *)
(*   blank    whitespace only                                              *)
(***************************************************************************)
MinLines == 5

NameLine(nm) == [kind |-> "name", nm |-> nm]

MentionLine(nm) == [kind |-> "mention", nm |-> nm]

RpmLine == [kind |-> "rpm", nm |-> ""]

DataLine == [kind |-> "data", nm |-> ""]

BlankLine == [kind |-> "blank", nm |-> ""]

\* re.split(r'\n\s*(?=<name>\.dat)', text): a new block starts at every name
\* line but the first line of the text (no newline precedes it); the blank
\* lines before a name line go with the separator
RECURSIVE SplitBlocks(_, _, _)
SplitBlocks(txt, i, current) ==
    IF i > Len(txt) THEN <<current>>
    ELSE IF txt[i].kind = "name" /\ i > 1
         THEN <<current>> \o SplitBlocks(txt, i + 1, <<txt[i]>>)
         ELSE SplitBlocks(txt, i + 1, Append(current, txt[i]))

blocks_of(txt) == SplitBlocks(txt, 1, <<>>)

\* block.strip().split("\n"): blank lines at both ends go; an empty block
\* still yields one (empty) line
RECURSIVE LStrip(_)
LStrip(b) == IF b # <<>> /\ Head(b).kind = "blank" THEN LStrip(Tail(b)) ELSE b

RECURSIVE RStrip(_)
RStrip(b) == IF b # <<>> /\ b[Len(b)].kind = "blank" THEN RStrip(SubSeq(b, 1, Len(b) - 1)) ELSE b

strip_lines(b) == LET s == RStrip(LStrip(b)) IN IF s = <<>> THEN <<BlankLine>> ELSE s

\* re.search(r'(<name>)\.dat', block): the first match in the block, or none
HasMatch(b) == \E i \in DOMAIN b : b[i].kind \in {"name", "mention"}

prop_name(b) ==
    LET i == CHOOSE k \in DOMAIN b :
                 /\ b[k].kind \in {"name", "mention"}
                 /\ \A m \in 1..(k - 1) : b[m].kind \notin {"name", "mention"}
    IN b[i].nm

HasHeader(lines) == \E i \in DOMAIN lines : lines[i].kind = "rpm"

header_idx(lines) ==
    CHOOSE i \in DOMAIN lines :
        lines[i].kind = "rpm" /\ \A m \in 1..(i - 1) : lines[m].kind # "rpm"

RECURSIVE NonBlank(_)
NonBlank(s) ==
    IF s = <<>> THEN <<>>
    ELSE IF Head(s).kind = "blank" THEN NonBlank(Tail(s))
    ELSE <<Head(s)>> \o NonBlank(Tail(s))

\* pd.read_csv of lines[header_idx:] with sep='\s+': the lines after the header
\* line, blank lines skipped, are the rows.  (A line with more fields than the
\* header makes read_csv raise; the generated files hold no such line.)
read_csv(lines) == NonBlank(SubSeq(lines, header_idx(lines) + 1, Len(lines)))

\* a variant in which the first block of a name wins
DictSet_keep_first(items, name, df) ==
    IF \E i \in DOMAIN items : items[i].name = name
    THEN items
    ELSE Append(items, [name |-> name, df |-> df])

\* prop_data[name] = df on a dict kept as its items in insertion order
DictSet(items, name, df) ==
    IF \E i \in DOMAIN items : items[i].name = name
    THEN [i \in DOMAIN items |->
             IF items[i].name = name THEN [name |-> name, df |-> df] ELSE items[i]]
    ELSE Append(items, [name |-> name, df |-> df])

\* the body of the loop over blocks
LoadBlock(items, block) ==
    LET lines == strip_lines(block)
    IN IF Len(lines) < MinLines THEN items
       ELSE IF ~HasMatch(block) THEN items
       ELSE IF ~HasHeader(lines) THEN items
       ELSE DictSet(items, prop_name(block), read_csv(lines))

RECURSIVE LoadBlocks(_, _)
LoadBlocks(items, blocks) ==
    IF blocks = <<>> THEN items
    ELSE LoadBlocks(LoadBlock(items, Head(blocks)), Tail(blocks))

load_propeller_data(txt) == LoadBlocks(<<>>, blocks_of(txt))

\* the most lines that follow the name line of a block in a generated file
MaxBody == 4

BodyLines == {RpmLine, DataLine, BlankLine}

Bodies == SeqsUpTo(BodyLines, MaxBody)

\* what a file may hold before its first name line that follows a newline
Preambles ==
    {<<>>,
     <<DataLine, RpmLine, DataLine, DataLine, DataLine>>,
     <<MentionLine("60x40"), RpmLine, DataLine, DataLine, BlankLine, DataLine>>}

Block(nm, body) == <<NameLine(nm)>> \o body

InitLoad ==
    /\ IdleAnalysis /\ IdleInterp
    /\ \E pre \in Preambles :
          \/ text = pre
          \/ \E b1 \in Bodies : text = pre \o Block("80x45", b1)
          \/ \E b1 \in Bodies, b2 \in Bodies, nm \in {"80x45", "60x40"} :
                text = pre \o Block("80x45", b1) \o Block(nm, b2)
    /\ loaded = <<>>
    /\ lpc = "call"

CallLoad ==
    /\ lpc = "call"
    /\ loaded' = load_propeller_data(text)
    /\ lpc' = "ret"
    /\ UNCHANGED <<text, avars, ivars>>

NextLoad == CallLoad

SpecLoad == InitLoad /\ [][NextLoad]_vars

(***************************************************************************)
(* Properties of load_propeller_data                                       *)
(***************************************************************************)
\* the first lines of the blocks: line 1, and every later name line
BlockStarts == {1} \cup {i \in 2..Len(text) : text[i].kind = "name"}

BlockEnd(s) ==
    LET later == {i \in BlockStarts : i > s}
    IN IF later = {} THEN Len(text)
       ELSE (CHOOSE i \in later : \A j \in later : i <= j) - 1

\* the lines s..e pass the three structural checks
PassesChecks(s, e) ==
    /\ \E i, j \in s..e :
          /\ text[i].kind # "blank" /\ text[j].kind # "blank"
          /\ j - i + 1 >= 5
    /\ \E i \in s..e : text[i].kind \in {"name", "mention"}
    /\ \E i \in s..e : text[i].kind = "rpm"

NameOfBlock(s, e) ==
    text[CHOOSE i \in s..e :
            /\ text[i].kind \in {"name", "mention"}
            /\ \A m \in s..(i - 1) : text[m].kind \notin {"name", "mention"}].nm

ValidStarts == {s \in BlockStarts : Len(text) > 0 /\ PassesChecks(s, BlockEnd(s))}

\* the rows of the block s..e: its non-blank lines after its first rpm line
TableOfBlock(s, e) ==
    LET h == CHOOSE i \in s..e :
                 text[i].kind = "rpm" /\ \A m \in s..(i - 1) : text[m].kind # "rpm"
    IN NonBlank(SubSeq(text, h + 1, e))

\* C8: the returned mapping's keys are exactly the names of the blocks that
\* pass all structural checks (at least 5 lines after trimming, a filename
\* match, a line starting with RPM), no key occurs twice, and each entry holds
\* the table of the last valid block of that name in file order.
C8_LoaderResult ==
    lpc = "ret" =>
        /\ {loaded[i].name : i \in DOMAIN loaded} =
               {NameOfBlock(s, BlockEnd(s)) : s \in ValidStarts}
        /\ \A i, j \in DOMAIN loaded : loaded[i].name = loaded[j].name => i = j
        /\ \A i \in DOMAIN loaded :
              LET mine == {s \in ValidStarts : NameOfBlock(s, BlockEnd(s)) = loaded[i].name}
                  last == CHOOSE s \in mine : \A t \in mine : t <= s
              IN loaded[i].df = TableOfBlock(last, BlockEnd(last))

\* two valid blocks of one name with different tables, and a rejected block
C8_Witness ==
    /\ lpc = "ret"
    /\ Cardinality(ValidStarts) = 2
    /\ Cardinality(BlockStarts) = 3
    /\ Len(loaded) = 1
    /\ \E s, t \in ValidStarts :
          /\ s < t
          /\ TableOfBlock(s, BlockEnd(s)) # TableOfBlock(t, BlockEnd(t))
          /\ loaded[1].df = TableOfBlock(t, BlockEnd(t))

====
